---- MODULE Spec2Model ----
(***************************************************************************)
(* Track resolution of spotify-playlist-creator: text normalisation, query *)
(* planning, match scoring and the staged search of the three copies of    *)
(* search_spotify_track (the monolithic script, src/spotify_client.py and  *)
(* src/track_finder.py), driven by the per-file loop of                    *)
(* create_playlist_from_folder against a scripted remote search backend.   *)
(*                                                                         *)
(* Strings are sequences of one-character strings.  Scores are exact       *)
(* rationals <<numerator, denominator>> in lowest terms (the code uses     *)
(* binary floating point; the weights and thresholds are the same).        *)
(***************************************************************************)
EXTENDS Integers, Sequences, FiniteSets, TLC

(***************************************************************************)
(* Bounds of the model.                                                    *)
(***************************************************************************)
\* most tracks in one search response (the code asks for limit=5)
MaxItems == 2
\* most audio files in the scanned folder
MaxFiles == 2

\* the longest title passed to clean_title directly, in tokens, and the
\* longest text passed to greek_to_greeklish directly, in characters
MaxTokens == 5

MaxChars == 3

(***************************************************************************)
(* Characters and strings.                                                 *)
(***************************************************************************)
Min(S) == CHOOSE x \in S : \A y \in S : x <= y

Max(S) == CHOOSE x \in S : \A y \in S : x >= y

\* str.lower() on the letters of the model's alphabet
LowerMap ==
       "A" :> "a" @@ "B" :> "b" @@ "C" :> "c" @@ "D" :> "d" @@ "E" :> "e" @@ "F" :> "f" @@ "G" :> "g" @@ "H" :> "h"
     @@ "I" :> "i" @@ "J" :> "j" @@ "K" :> "k" @@ "L" :> "l" @@ "M" :> "m" @@ "N" :> "n" @@ "O" :> "o" @@ "P" :> "p"
     @@ "Q" :> "q" @@ "R" :> "r" @@ "S" :> "s" @@ "T" :> "t" @@ "U" :> "u" @@ "V" :> "v" @@ "W" :> "w" @@ "X" :> "x"
     @@ "Y" :> "y" @@ "Z" :> "z" @@ "Α" :> "α" @@ "Ά" :> "ά" @@ "Β" :> "β" @@ "Γ" :> "γ" @@ "Δ" :> "δ" @@ "Ε" :> "ε"
     @@ "Έ" :> "έ" @@ "Ζ" :> "ζ" @@ "Η" :> "η" @@ "Ή" :> "ή" @@ "Θ" :> "θ" @@ "Ι" :> "ι" @@ "Ί" :> "ί" @@ "Ϊ" :> "ϊ"
     @@ "Κ" :> "κ" @@ "Λ" :> "λ" @@ "Μ" :> "μ" @@ "Ν" :> "ν" @@ "Ξ" :> "ξ" @@ "Ο" :> "ο" @@ "Ό" :> "ό" @@ "Π" :> "π"
     @@ "Ρ" :> "ρ" @@ "Σ" :> "σ" @@ "Τ" :> "τ" @@ "Υ" :> "υ" @@ "Ύ" :> "ύ" @@ "Ϋ" :> "ϋ" @@ "Φ" :> "φ" @@ "Χ" :> "χ"
     @@ "Ψ" :> "ψ" @@ "Ω" :> "ω" @@ "Ώ" :> "ώ"

\* the characters the class [α-ωΑ-Ω] matches (re.IGNORECASE changes nothing:
\* the accented vowels lie outside both ranges in either case)
GreekRange == {"α", "β", "γ", "δ", "ε", "ζ", "η", "θ", "ι", "κ", "λ", "μ", "ν", "ξ", "ο", "π", "ρ", "ς", "σ", "τ", "υ", "φ", "χ", "ψ", "ω", "Α", "Β", "Γ", "Δ", "Ε", "Ζ", "Η", "Θ", "Ι", "Κ", "Λ", "Μ", "Ν", "Ξ", "Ο", "Π", "Ρ", "Σ", "Τ", "Υ", "Φ", "Χ", "Ψ", "Ω"}

\* a table whose values are Greek letters again
GreekToGreekMap ==
    "θ" :> <<"τ", "h">> @@ "Θ" :> <<"Τ", "h">> @@ "τ" :> <<"t">> @@ "Τ" :> <<"T">>

\* the transliteration table of text_utils.greek_to_greeklish (and of
\* SpotifyPlaylistCreator._greek_to_greeklish in src/src/spotify_client.py)
greek_to_greeklish_map ==
       "α" :> <<"a">> @@ "ά" :> <<"a">> @@ "β" :> <<"v">> @@ "γ" :> <<"g">> @@ "δ" :> <<"d">>
     @@ "ε" :> <<"e">> @@ "έ" :> <<"e">> @@ "ζ" :> <<"z">> @@ "η" :> <<"i">> @@ "ή" :> <<"i">>
     @@ "θ" :> <<"t", "h">> @@ "ι" :> <<"i">> @@ "ί" :> <<"i">> @@ "ϊ" :> <<"i">> @@ "ΐ" :> <<"i">>
     @@ "κ" :> <<"k">> @@ "λ" :> <<"l">> @@ "μ" :> <<"m">> @@ "ν" :> <<"n">> @@ "ξ" :> <<"x">>
     @@ "ο" :> <<"o">> @@ "ό" :> <<"o">> @@ "π" :> <<"p">> @@ "ρ" :> <<"r">> @@ "σ" :> <<"s">>
     @@ "ς" :> <<"s">> @@ "τ" :> <<"t">> @@ "υ" :> <<"y">> @@ "ύ" :> <<"y">> @@ "φ" :> <<"f">>
     @@ "χ" :> <<"c", "h">> @@ "ψ" :> <<"p", "s">> @@ "ω" :> <<"o">> @@ "ώ" :> <<"o">> @@ "Α" :> <<"A">>
     @@ "Ά" :> <<"A">> @@ "Β" :> <<"V">> @@ "Γ" :> <<"G">> @@ "Δ" :> <<"D">> @@ "Ε" :> <<"E">>
     @@ "Έ" :> <<"E">> @@ "Ζ" :> <<"Z">> @@ "Η" :> <<"I">> @@ "Ή" :> <<"I">> @@ "Θ" :> <<"T", "h">>
     @@ "Ι" :> <<"I">> @@ "Ί" :> <<"I">> @@ "Ϊ" :> <<"I">> @@ "Κ" :> <<"K">> @@ "Λ" :> <<"L">>
     @@ "Μ" :> <<"M">> @@ "Ν" :> <<"N">> @@ "Ξ" :> <<"X">> @@ "Ο" :> <<"O">> @@ "Ό" :> <<"O">>
     @@ "Π" :> <<"P">> @@ "Ρ" :> <<"R">> @@ "Σ" :> <<"S">> @@ "Τ" :> <<"T">> @@ "Υ" :> <<"Y">>
     @@ "Ύ" :> <<"Y">> @@ "Φ" :> <<"F">> @@ "Χ" :> <<"C", "h">> @@ "Ψ" :> <<"P", "s">> @@ "Ω" :> <<"O">>
     @@ "Ώ" :> <<"O">>

\* what the table of the monolithic script adds or maps differently
mono_overrides ==
       "ϋ" :> <<"y">> @@ "ΰ" :> <<"y">> @@ "Θ" :> <<"T", "H">> @@ "Ϋ" :> <<"Y">> @@ "Χ" :> <<"C", "H">>
     @@ "Ψ" :> <<"P", "S">>

\* ASCII members of \w
WordChars == {"a", "b", "c", "d", "e", "f", "g", "h", "i", "j", "k", "l", "m", "n", "o", "p", "q", "r", "s", "t", "u", "v", "w", "x", "y", "z", "A", "B", "C", "D", "E", "F", "G", "H", "I", "J", "K", "L", "M", "N", "O", "P", "Q", "R", "S", "T", "U", "V", "W", "X", "Y", "Z", "0", "1", "2", "3", "4", "5", "6", "7", "8", "9", "_"}

IsSpace(c) == c = " "

Lower(c) == IF c \in DOMAIN LowerMap THEN LowerMap[c] ELSE c

lower(s) == [i \in 1..Len(s) |-> Lower(s[i])]

\* \w: ASCII alphanumerics, underscore and the Greek letters
IsWordChar(c) ==
    \/ c \in WordChars
    \/ c \in DOMAIN greek_to_greeklish_map
    \/ c \in DOMAIN mono_overrides

\* the elements of s at the indices in K, in order
Keep(s, K) ==
    LET F[i \in 0..Len(s)] ==
            IF i = 0 THEN <<>>
            ELSE IF i \in K THEN Append(F[i - 1], s[i]) ELSE F[i - 1]
    IN  F[Len(s)]

\* str.strip()
strip(s) ==
    LET idx == {i \in 1..Len(s) : ~IsSpace(s[i])}
    IN  IF idx = {} THEN <<>> ELSE SubSeq(s, Min(idx), Max(idx))

\* the lower-case word w occurs in s at index i, ignoring case
MatchAt(s, i, w) ==
    /\ i >= 1
    /\ i + Len(w) - 1 <= Len(s)
    /\ \A k \in 1..Len(w) : Lower(s[i + k - 1]) = w[k]

\* where a leading \s* that ends just before index i starts
WsStart(s, i) ==
    LET nonws == {j \in 1..(i - 1) : ~IsSpace(s[j])}
    IN  IF nonws = {} THEN 1 ELSE Max(nonws) + 1

Positions(s, c) == {i \in 1..Len(s) : s[i] = c}

Cut(s, from, to) == SubSeq(s, 1, from - 1) \o SubSeq(s, to + 1, Len(s))

(***************************************************************************)
(* clean_title: the nine re.sub passes, in the order of patterns_to_remove, *)
(* then whitespace collapsing.  Each operator computes the leftmost match  *)
(* with greedy quantifiers, as re.sub does, on strings without newlines.   *)
(***************************************************************************)
\* r'\s*\(.*WORD.*\)' : from the first "(" (and the blanks before it) to the
\* last ")", when WORD lies between them
SubParenWord(s, w) ==
    LET opens == Positions(s, "(")
    IN  IF opens = {} THEN s
        ELSE LET i == Min(opens)
                 ok == \E j \in (i + 1)..Len(s) :
                          /\ MatchAt(s, j, w)
                          /\ \E k \in (j + Len(w))..Len(s) : s[k] = ")"
             IN  IF ~ok THEN s
                 ELSE Cut(s, WsStart(s, i), Max(Positions(s, ")")))

\* r'\s*\[.*\]'
SubBrackets(s) ==
    LET opens == Positions(s, "[")
    IN  IF opens = {} THEN s
        ELSE LET i == Min(opens)
                 closes == {k \in Positions(s, "]") : k > i}
             IN  IF closes = {} THEN s
                 ELSE Cut(s, WsStart(s, i), Max(closes))

\* r'\s*\(?official.*WORD\)?'
SubOfficialWord(s, w) ==
    LET official == <<"o", "f", "f", "i", "c", "i", "a", "l">>
        ends(o) == {v \in (o + 8)..Len(s) : MatchAt(s, v, w)}
        offs == {o \in 1..Len(s) : MatchAt(s, o, official) /\ ends(o) # {}}
    IN  IF offs = {} THEN s
        ELSE LET o == Min(offs)
                 e0 == Max(ends(o)) + Len(w) - 1
                 e == IF e0 < Len(s) /\ s[e0 + 1] = ")" THEN e0 + 1 ELSE e0
                 p == IF o > 1 /\ s[o - 1] = "(" THEN o - 1 ELSE o
             IN  Cut(s, WsStart(s, p), e)

\* the alternatives (HD|HQ|4K|1080p|720p), lower-cased
QualityTags ==
    << <<"h", "d">>, <<"h", "q">>, <<"4", "k">>,
       <<"1", "0", "8", "0", "p">>, <<"7", "2", "0", "p">> >>

\* \b between s[i-1] and s[i]
WordBoundary(s, i) ==
    LET before == i > 1 /\ i - 1 <= Len(s) /\ IsWordChar(s[i - 1])
        after == i >= 1 /\ i <= Len(s) /\ IsWordChar(s[i])
    IN  before # after

\* length of the match of r'\b(HD|HQ|4K|1080p|720p)\b' at index i, or 0
QualityLen(s, i) ==
    LET hits == {n \in 1..Len(QualityTags) :
                    /\ MatchAt(s, i, QualityTags[n])
                    /\ WordBoundary(s, i)
                    /\ WordBoundary(s, i + Len(QualityTags[n]))}
    IN  IF hits = {} THEN 0 ELSE Len(QualityTags[Min(hits)])

RECURSIVE SubQualityFrom(_, _)
SubQualityFrom(s, i) ==
    IF i > Len(s) THEN <<>>
    ELSE LET n == QualityLen(s, i)
         IN  IF n > 0 THEN SubQualityFrom(s, i + n)
             ELSE <<s[i]>> \o SubQualityFrom(s, i + 1)

SubQuality(s) == SubQualityFrom(s, 1)

\* the alternatives of the trailing-suffix pattern (lyrics? is matched by its
\* prefix lyric, since .* follows)
SuffixWords ==
    { <<"l", "y", "r", "i", "c">>, <<"o", "f", "f", "i", "c", "i", "a", "l">>,
      <<"v", "i", "d", "e", "o">>, <<"a", "u", "d", "i", "o">>,
      <<"h", "d">>, <<"h", "q">>, <<"4", "k">>,
      <<"1", "0", "8", "0", "p">>, <<"7", "2", "0", "p">> }

\* the character U+2013 (EN DASH), written as a token
EnDash == "ndash"

\* r'\s*[-<EnDash>]\s*(lyrics?|official|video|audio|HD|HQ|4K|1080p|720p).*$'
SubDashSuffix(s) ==
    LET word(d) == LET rest == {j \in (d + 1)..Len(s) : ~IsSpace(s[j])}
                   IN  IF rest = {} THEN 0 ELSE Min(rest)
        dashes == {d \in 1..Len(s) :
                      /\ s[d] \in {"-", EnDash}
                      /\ word(d) # 0
                      /\ \E w \in SuffixWords : MatchAt(s, word(d), w)}
    IN  IF dashes = {} THEN s
        ELSE SubSeq(s, 1, WsStart(s, Min(dashes)) - 1)

\* r'\s*\([^)]*[α-ωΑ-Ω][^)]*\)' : every parenthesis group holding a Greek letter
RECURSIVE SubGreekParens(_)
SubGreekParens(s) ==
    LET close(i) == LET cs == {k \in Positions(s, ")") : k > i}
                    IN  IF cs = {} THEN 0 ELSE Min(cs)
        opens == {i \in Positions(s, "(") :
                     /\ close(i) # 0
                     /\ \E g \in (i + 1)..(close(i) - 1) : s[g] \in GreekRange}
    IN  IF opens = {} THEN s
        ELSE LET i == Min(opens)
             IN  SubSeq(s, 1, WsStart(s, i) - 1)
                     \o SubGreekParens(SubSeq(s, close(i) + 1, Len(s)))

\* r'\[.*[α-ωΑ-Ω].*\]'
SubGreekBrackets(s) ==
    LET opens == {i \in Positions(s, "[") :
                     \E g \in (i + 1)..Len(s) :
                         /\ s[g] \in GreekRange
                         /\ \E k \in (g + 1)..Len(s) : s[k] = "]"}
    IN  IF opens = {} THEN s
        ELSE Cut(s, Min(opens), Max(Positions(s, "]")))

\* re.sub(r'\s+', ' ', s)
CollapseSpaces(s) ==
    Keep(s, {i \in 1..Len(s) : ~(IsSpace(s[i]) /\ i > 1 /\ IsSpace(s[i - 1]))})

clean_title(title) ==
    IF title = <<>> THEN <<>>
    ELSE LET c0 == strip(title)
             c1 == SubParenWord(c0, <<"l", "y", "r", "i", "c">>)
             c2 == SubBrackets(c1)
             c3 == SubParenWord(c2, <<"o", "f", "f", "i", "c", "i", "a", "l">>)
             c4 == SubOfficialWord(c3, <<"v", "i", "d", "e", "o">>)
             c5 == SubOfficialWord(c4, <<"a", "u", "d", "i", "o">>)
             c6 == SubQuality(c5)
             c7 == SubDashSuffix(c6)
             c8 == SubGreekParens(c7)
             c9 == SubGreekBrackets(c8)
         IN  strip(CollapseSpaces(c9))

(***************************************************************************)
(* greek_to_greeklish                                                      *)
(***************************************************************************)
\* the table of the implementation impl
GreeklishOf(impl, c) ==
    IF impl = "mono" /\ c \in DOMAIN mono_overrides THEN mono_overrides[c]
    ELSE IF c \in DOMAIN greek_to_greeklish_map THEN greek_to_greeklish_map[c]
    ELSE <<c>>

greek_to_greeklish(impl, text) ==
    LET F[i \in 0..Len(text)] ==
            IF i = 0 THEN <<>> ELSE F[i - 1] \o GreeklishOf(impl, text[i])
    IN  F[Len(text)]

(***************************************************************************)
(* _build_search_query (the same text in the three files).  None is the    *)
(* one-token sequence <<"None">>, which no string of the program equals;   *)
(* the empty string is <<>>.                                               *)
(***************************************************************************)
None == <<"None">>

Truthy(v) == v # None /\ v # <<>>

Quoted(s) == <<"\"">> \o s \o <<"\"">>

TrackClause(s) == <<"t", "r", "a", "c", "k", ":">> \o Quoted(s)

ArtistClause(s) == <<"a", "r", "t", "i", "s", "t", ":">> \o Quoted(s)

\* a variant that keeps the field qualifier when only one field is given
BuildQualifiedAlways(title_to_search, artist_to_search) ==
    IF Truthy(title_to_search) /\ Truthy(artist_to_search)
    THEN TrackClause(title_to_search) \o <<" ">> \o ArtistClause(artist_to_search)
    ELSE IF Truthy(title_to_search) THEN TrackClause(title_to_search)
    ELSE IF Truthy(artist_to_search) THEN ArtistClause(artist_to_search)
    ELSE None

_build_search_query(title_to_search, artist_to_search) ==
    IF Truthy(title_to_search) /\ Truthy(artist_to_search)
    THEN TrackClause(title_to_search) \o <<" ">> \o ArtistClause(artist_to_search)
    ELSE IF Truthy(title_to_search) THEN Quoted(title_to_search)
    ELSE IF Truthy(artist_to_search) THEN Quoted(artist_to_search)
    ELSE None

(***************************************************************************)
(* Scores: exact rationals <<n, d>> with d > 0, in lowest terms.           *)
(***************************************************************************)
RECURSIVE GCD(_, _)
GCD(a, b) == IF b = 0 THEN a ELSE GCD(b, a % b)

Rat(n, d) == LET g == GCD(n, d) IN <<n \div g, d \div g>>

RAdd(p, q) == Rat(p[1] * q[2] + q[1] * p[2], p[2] * q[2])

RMul(p, q) == Rat(p[1] * q[1], p[2] * q[2])

RLt(p, q) == p[1] * q[2] < q[1] * p[2]

RGt(p, q) == RLt(q, p)

RGe(p, q) == ~RLt(p, q)

Zero == <<0, 1>>

One == <<1, 1>>

(***************************************************************************)
(* difflib.SequenceMatcher(None, a, b).ratio() without junk (autojunk only *)
(* acts on sequences of 200 or more elements).  Window indices are those   *)
(* of difflib: 0-based, half-open.                                         *)
(***************************************************************************)
\* length of the common run of a from i and b from j inside the window
RECURSIVE RunLen(_, _, _, _, _, _)
RunLen(a, b, i, j, ahi, bhi) ==
    IF i < ahi /\ j < bhi /\ a[i + 1] = b[j + 1]
    THEN 1 + RunLen(a, b, i + 1, j + 1, ahi, bhi)
    ELSE 0

\* <<i, j, k>>: the longest matching block of a[alo:ahi] and b[blo:bhi], the
\* earliest in a and then in b among the longest; k = 0 when nothing matches
find_longest_match(a, b, alo, ahi, blo, bhi) ==
    LET starts == (alo..(ahi - 1)) \X (blo..(bhi - 1))
        len(p) == RunLen(a, b, p[1], p[2], ahi, bhi)
        sizes == {len(p) : p \in starts}
        best == IF sizes = {} THEN 0 ELSE Max(sizes)
    IN  IF best = 0 THEN <<alo, blo, 0>>
        ELSE LET cands == {p \in starts : len(p) = best}
                 i == Min({p[1] : p \in cands})
                 j == Min({p[2] : p \in {c \in cands : c[1] = i}})
             IN  <<i, j, best>>

\* the summed sizes of get_matching_blocks()
RECURSIVE MatchedSize(_, _, _, _, _, _)
MatchedSize(a, b, alo, ahi, blo, bhi) ==
    LET m == find_longest_match(a, b, alo, ahi, blo, bhi)
        i == m[1]
        j == m[2]
        k == m[3]
    IN  IF k = 0 THEN 0
        ELSE k
             + (IF alo < i /\ blo < j
                THEN MatchedSize(a, b, alo, i, blo, j) ELSE 0)
             + (IF i + k < ahi /\ j + k < bhi
                THEN MatchedSize(a, b, i + k, ahi, j + k, bhi) ELSE 0)

ratio(a, b) ==
    IF Len(a) + Len(b) = 0 THEN One
    ELSE Rat(2 * MatchedSize(a, b, 0, Len(a), 0, Len(b)), Len(a) + Len(b))

(***************************************************************************)
(* _calculate_match_score                                                  *)
(***************************************************************************)
\* the weight of the artist term, where the title's weight belongs
TitleWeightAsArtist == <<2, 5>>

TITLE_WEIGHT == <<3, 5>>

ARTIST_WEIGHT == <<2, 5>>

DURATION_BONUS == <<1, 10>>

\* the duration tolerance of TrackFinder, in ms
DURATION_TOLERANCE_MS == 5000

\* the separators of re.split(r',|ft\.|feat\.|&|και|με', ...), in order
ArtistSeparators ==
    << <<",">>, <<"f", "t", ".">>, <<"f", "e", "a", "t", ".">>, <<"&">>,
       <<"κ", "α", "ι">>, <<"μ", "ε">> >>

ExactAt(s, i, w) ==
    /\ i >= 1
    /\ i + Len(w) - 1 <= Len(s)
    /\ \A k \in 1..Len(w) : s[i + k - 1] = w[k]

SeparatorLen(s, i) ==
    LET hits == {n \in 1..Len(ArtistSeparators) : ExactAt(s, i, ArtistSeparators[n])}
    IN  IF hits = {} THEN 0 ELSE Len(ArtistSeparators[Min(hits)])

RECURSIVE SplitFrom(_, _, _)
SplitFrom(s, i, cur) ==
    IF i > Len(s) THEN <<cur>>
    ELSE LET n == SeparatorLen(s, i)
         IN  IF n > 0 THEN <<cur>> \o SplitFrom(s, i + n, <<>>)
             ELSE SplitFrom(s, i + 1, Append(cur, s[i]))

\* the stripped, non-empty parts of the lower-cased local artist
split_artist_parts(local_artist_str) ==
    LET raw == SplitFrom(local_artist_str, 1, <<>>)
        stripped == [n \in 1..Len(raw) |-> strip(raw[n])]
    IN  Keep(stripped, {n \in 1..Len(stripped) : stripped[n] # <<>>})

\* Python's  part in text
IsSubstring(part, text) == \E i \in 1..(Len(text) - Len(part) + 1) : ExactAt(text, i, part)

\* " ".join(names)
RECURSIVE JoinWith(_, _)
JoinWith(names, sep) ==
    IF names = <<>> THEN <<>>
    ELSE IF Len(names) = 1 THEN names[1]
    ELSE names[1] \o sep \o JoinWith(Tail(names), sep)

TitleTerm(local_song_info, spotify_track_info) ==
    RMul(ratio(lower(clean_title(local_song_info.title)),
               lower(spotify_track_info.name)),
         TITLE_WEIGHT)

\* SpotifyPlaylistCreator._calculate_match_score of the monolithic script
\* (each part against each single artist name) and of src/spotify_client.py
\* (each part against the space-joined artist names)
ArtistTermParts(impl, local_song_info, spotify_track_info) ==
    LET local_artist_str == lower(local_song_info.artist)
        spotify_artist_names ==
            [n \in 1..Len(spotify_track_info.artists) |->
                lower(spotify_track_info.artists[n])]
        local_artist_parts == split_artist_parts(local_artist_str)
        combined_spotify_artists == JoinWith(spotify_artist_names, <<" ">>)
        matches(part) ==
            IF impl = "mono"
            THEN \E n \in 1..Len(spotify_artist_names) :
                    IsSubstring(part, spotify_artist_names[n])
            ELSE IsSubstring(part, combined_spotify_artists)
        matched_local_parts ==
            Cardinality({n \in 1..Len(local_artist_parts) :
                            matches(local_artist_parts[n])})
    IN  IF local_artist_str # <<>> /\ spotify_artist_names # <<>>
        THEN IF local_artist_parts # <<>>
             THEN RMul(Rat(matched_local_parts, Len(local_artist_parts)),
                       ARTIST_WEIGHT)
             ELSE Zero
        ELSE IF local_artist_str = <<>> /\ spotify_artist_names = <<>>
        THEN ARTIST_WEIGHT
        ELSE Zero

\* TrackFinder._calculate_match_score: the best similarity ratio
ArtistTermRatio(local_song_info, spotify_track_info) ==
    LET local_artist == lower(local_song_info.artist)
        spotify_artists ==
            [n \in 1..Len(spotify_track_info.artists) |->
                lower(spotify_track_info.artists[n])]
        sims == {ratio(local_artist, spotify_artists[n]) :
                    n \in 1..Len(spotify_artists)}
        artist_similarity == CHOOSE r \in sims : \A o \in sims : RGe(r, o)
    IN  IF local_artist # <<>> /\ spotify_artists # <<>>
        THEN RMul(artist_similarity, ARTIST_WEIGHT)
        ELSE Zero

\* a variant in which a difference of exactly the tolerance earns the bonus
DurationTermInclusive(local_song_info, spotify_track_info) ==
    LET local_duration_ms == local_song_info.duration_ms
        spotify_duration_ms == spotify_track_info.duration_ms
        diff == IF local_duration_ms >= spotify_duration_ms
                THEN local_duration_ms - spotify_duration_ms
                ELSE spotify_duration_ms - local_duration_ms
    IN  IF local_duration_ms # 0 /\ spotify_duration_ms # 0
           /\ diff <= DURATION_TOLERANCE_MS
        THEN DURATION_BONUS
        ELSE Zero

DurationTerm(local_song_info, spotify_track_info) ==
    LET local_duration_ms == local_song_info.duration_ms
        spotify_duration_ms == spotify_track_info.duration_ms
        diff == IF local_duration_ms >= spotify_duration_ms
                THEN local_duration_ms - spotify_duration_ms
                ELSE spotify_duration_ms - local_duration_ms
    IN  IF local_duration_ms # 0 /\ spotify_duration_ms # 0
           /\ diff < DURATION_TOLERANCE_MS
        THEN DURATION_BONUS
        ELSE Zero

_calculate_match_score(impl, local_song_info, spotify_track_info) ==
    IF impl = "finder"
    THEN RAdd(RAdd(TitleTerm(local_song_info, spotify_track_info),
                   ArtistTermRatio(local_song_info, spotify_track_info)),
              DurationTerm(local_song_info, spotify_track_info))
    ELSE RAdd(TitleTerm(local_song_info, spotify_track_info),
              ArtistTermParts(impl, local_song_info, spotify_track_info))

(***************************************************************************)
(* Query planning.  A stage's list may hold None entries; the loop that    *)
(* executes it skips them.                                                 *)
(***************************************************************************)
Impls == {"mono", "client", "finder"}

\* the list xs without its falsy entries: filter(None, xs)
FilterNone(xs) == Keep(xs, {n \in 1..Len(xs) : Truthy(xs[n])})

InList(q, xs) == \E n \in 1..Len(xs) : xs[n] = q

\* f'"{a}" "{b}"'
RawPair(a, b) == Quoted(a) \o <<" ">> \o Quoted(b)

_get_stage1_queries(original_cleaned_title, artist) ==
    << _build_search_query(original_cleaned_title, artist) >>

_get_stage2_queries(impl, original_cleaned_title, artist) ==
    IF impl = "finder"
    THEN FilterNone(<< _build_search_query(original_cleaned_title, None),
                       _build_search_query(None, artist) >>)
    ELSE << _build_search_query(original_cleaned_title, <<>>) >>
         \o (IF Truthy(artist)
             THEN << _build_search_query(<<>>, artist) >> ELSE <<>>)

\* TrackFinder._get_stage3_queries
FinderStage3(ct, artist, gt, ga, stage1_queries, stage2_queries) ==
    LET greeklish == IF gt # ct \/ ga # artist
                     THEN << _build_search_query(gt, ga),
                             _build_search_query(gt, None) >>
                     ELSE <<>>
        title_only_query == _build_search_query(ct, None)
        artist_only_query == _build_search_query(None, artist)
        stage3_queries ==
            greeklish
            \o (IF ~InList(title_only_query, stage2_queries)
                THEN <<title_only_query>> ELSE <<>>)
            \o (IF ~InList(artist_only_query, stage2_queries)
                THEN <<artist_only_query>> ELSE <<>>)
        all_tried_queries == stage1_queries \o stage2_queries
    IN  Keep(stage3_queries,
             {n \in 1..Len(stage3_queries) :
                 /\ Truthy(stage3_queries[n])
                 /\ ~InList(stage3_queries[n], all_tried_queries)})

\* SpotifyPlaylistCreator._get_stage3_queries, and the same plan written
\* inline in the monolithic script
CreatorStage3(ct, artist, gt, ga, stage1_queries, stage2_queries) ==
    LET hasArtist == Truthy(artist)
        queries ==
            (IF gt # ct
             THEN << _build_search_query(gt, artist),
                     _build_search_query(gt, <<>>) >>
                  \o (IF hasArtist /\ ga # artist
                      THEN << _build_search_query(gt, ga) >> ELSE <<>>)
             ELSE <<>>)
            \o (IF hasArtist /\ ga # artist
                THEN << _build_search_query(ct, ga) >> ELSE <<>>)
            \o (IF hasArtist THEN << RawPair(ct, artist) >> ELSE <<>>)
            \o << Quoted(ct) >>
            \o (IF hasArtist THEN << Quoted(artist) >> ELSE <<>>)
            \o (IF gt # ct
                THEN (IF hasArtist /\ ga # artist THEN << RawPair(gt, ga) >>
                      ELSE IF hasArtist THEN << RawPair(gt, artist) >>
                      ELSE <<>>)
                     \o << Quoted(gt) >>
                ELSE <<>>)
        processed_queries == FilterNone(stage1_queries \o stage2_queries)
    IN  Keep(queries,
             {n \in 1..Len(queries) :
                 /\ Truthy(queries[n])
                 /\ ~InList(queries[n], processed_queries)})

\* the Stage 3 plan with nothing counted as tried already
Stage3WithoutTried(impl, ct, artist, gt, ga, stage1_queries, stage2_queries) ==
    IF impl = "finder"
    THEN FinderStage3(ct, artist, gt, ga, <<>>, <<>>)
    ELSE CreatorStage3(ct, artist, gt, ga, <<>>, <<>>)

_get_stage3_queries(impl, ct, artist, gt, ga, stage1_queries, stage2_queries) ==
    IF impl = "finder"
    THEN FinderStage3(ct, artist, gt, ga, stage1_queries, stage2_queries)
    ELSE CreatorStage3(ct, artist, gt, ga, stage1_queries, stage2_queries)

\* the title and the artist search_spotify_track works with: the creators
\* strip both, TrackFinder takes them as they are
SearchTitle(impl, info) == IF impl = "finder" THEN info.title ELSE strip(info.title)

SearchArtist(impl, info) == IF impl = "finder" THEN info.artist ELSE strip(info.artist)

\* the three stage lists of one resolution, from the cleaned title, the
\* artist, their transliterations and the first two lists
StageLists(impl, ct, artist, gt, ga, s1, s2) ==
    << s1, s2, _get_stage3_queries(impl, ct, artist, gt, ga, s1, s2) >>

PlanFrom(impl, ct, artist) ==
    StageLists(impl, ct, artist,
               greek_to_greeklish(impl, ct), greek_to_greeklish(impl, artist),
               _get_stage1_queries(ct, artist),
               _get_stage2_queries(impl, ct, artist))

\* the three stage lists of one resolution, from its record
PlanOf(impl, info) ==
    PlanFrom(impl, clean_title(SearchTitle(impl, info)),
             SearchArtist(impl, info))

(***************************************************************************)
(* The records and the remote catalogue the model runs on.                 *)
(***************************************************************************)
NoTitle ==
    [title |-> <<>>,
     artist |-> <<"A", "n", "y", "o", "n", "e">>,
     duration_ms |-> 0]

BlankTitle ==
    [title |-> <<" ">>,
     artist |-> <<"A", "b", "c", "d">>,
     duration_ms |-> 0]

SongOnly ==
    [title |-> <<"S", "o", "n", "g">>,
     artist |-> <<>>,
     duration_ms |-> 0]

SongAbcd ==
    [title |-> <<"S", "o", "n", "g">>,
     artist |-> <<"A", "b", "c", "d">>,
     duration_ms |-> 0]

MiaAgapi ==
    [title |-> <<"Μ", "ι", "α", " ", "Α", "γ", "ά", "π", "η", " ", "(", "O", "f", "f", "i", "c", "i", "a", "l", " ", "A", "u", "d", "i", "o", ")">>,
     artist |-> <<"Γ", "ι", "ά", "ν", "ν", "η", "ς", " ", "Π", "α", "π", "α", "δ", "ό", "π", "ο", "υ", "λ", "ο", "ς">>,
     duration_ms |-> 0]

NoiseOnly ==
    [title |-> <<"(", "O", "f", "f", "i", "c", "i", "a", "l", " ", "A", "u", "d", "i", "o", ")">>,
     artist |-> <<>>,
     duration_ms |-> 0]

\* the SongInfo records get_song_info can hand to the resolution
Records == {NoTitle, BlankTitle, SongOnly, SongAbcd, MiaAgapi, NoiseOnly}

GreekRecords == {MiaAgapi}

\* the value of song_info before the first file is read
NoSong == [title |-> <<>>, artist |-> <<>>, duration_ms |-> 0]

\* the tracks of the remote catalogue, by id
Tracks ==
  [ A |-> [name |-> <<"S", "o", "n", "g">>, artists |-> <<<<"A", "b", "c", "d">>>>, duration_ms |-> 200000, uri |-> "uriA"],
    B |-> [name |-> <<"S", "o", "n", "g">>, artists |-> <<<<"A", "b", "c", "e">>>>, duration_ms |-> 200000, uri |-> "uriB"],
    C |-> [name |-> <<"S", "o", "x", "y">>, artists |-> <<<<"A", "b", "c", "d">>>>, duration_ms |-> 200000, uri |-> "uriC"],
    D |-> [name |-> <<"S", "o", "n", "g">>, artists |-> <<>>, duration_ms |-> 200000, uri |-> "uriD"],
    E |-> [name |-> <<"S", "o">>, artists |-> <<<<"A", "b", "c", "d">>>>, duration_ms |-> 200000, uri |-> "uriE"],
    F |-> [name |-> <<"S", "o", "n", "x">>, artists |-> <<<<"A", "b", "c", "d">>>>, duration_ms |-> 200000, uri |-> "uriF"],
    G |-> [name |-> <<"M", "i", "a", " ", "A", "g", "a", "p", "i">>, artists |-> <<<<"G", "i", "a", "n", "n", "i", "s", " ", "P", "a", "p", "a", "d", "o", "p", "o", "y", "l", "o", "s">>>>, duration_ms |-> 200000, uri |-> "uriG"],
    H |-> [name |-> <<"S", "o", "n", "g">>, artists |-> << <<"A", "b", "c", "d">>, <<"X", "y">> >>, duration_ms |-> 200000, uri |-> "uriH"],
    I |-> [name |-> <<"S", "o", "n", "g">>, artists |-> <<<<"A", "b", "c", "d">>>>, duration_ms |-> 0, uri |-> "uriI"] ]

TrackIds == DOMAIN Tracks

\* the tracks whose title is Greeklish
GreeklishTracks == {"G"}

\* the tracks only the direct calls of _calculate_match_score are given: one
\* with two artists, one without a duration
DirectOnlyTracks == {"H", "I"}

LatinTracks == TrackIds \ (GreeklishTracks \cup DirectOnlyTracks)

\* what the remote service may hold: Latin titles, or Greeklish titles only
Catalogs == {LatinTracks, GreeklishTracks}

\* sp.search(q, type='track', limit) answers with a list of distinct tracks of
\* the catalogue, with None, with a dictionary that lacks 'tracks', or raises
ItemLists(cat) ==
    {items \in UNION {[1..n -> cat] : n \in 0..MaxItems} :
        \A a, b \in 1..Len(items) : items[a] = items[b] => a = b}

Responses(cat) ==
    {[kind |-> k, items |-> <<>>] : k \in {"raise", "none", "malformed"}}
        \cup {[kind |-> "items", items |-> items] : items \in ItemLists(cat)}

(***************************************************************************)
(* Thresholds.                                                             *)
(***************************************************************************)
\* SpotifyPlaylistCreator.search_spotify_track: accepted when score >= these
STAGE1_MIN_SCORE == <<85, 100>>

\* a variant of the Stage 2 threshold that repeats the Stage 1 value
Stage2AsStage1 == <<85, 100>>

STAGE2_MIN_SCORE == <<75, 100>>

MIN_ACCEPTABLE_SCORE == <<65, 100>>

\* TrackFinder.search_spotify_track: accepted when score > these
FINDER_STAGE1_SCORE == <<95, 100>>

FINDER_STAGE2_SCORE == <<90, 100>>

FINDER_FINAL_SCORE == <<7, 10>>

(***************************************************************************)
(* State.                                                                  *)
(***************************************************************************)
VARIABLES
    impl,                   \* which copy runs: "mono", "client" or "finder"
    catalog,                \* the track ids the remote service holds
    dry_run,                \* the dry_run argument
    audio_files,            \* the records of the folder's files, in order
    pc,                     \* "start", "loop", "stage", "returned",
                            \* "finished" or "raised"
    file_idx,               \* how many files the loop has taken
    found_tracks_uris,
    not_found_tracks_info,
    song_info,              \* the record being resolved
    stage,                  \* 1, 2, 3; 0 outside a staged search
    queries_to_try,         \* the list of the current stage
    q_idx,                  \* the next entry of queries_to_try
    stage1_queries,
    stage2_queries,
    best_match_candidate,   \* None, or <<id>> of the held track
    highest_score_achieved,
    api_requests_count,
    track,                  \* what search_spotify_track returned
    sp_calls,               \* the q of every sp.search call of this resolution
    query_failed,           \* the latest search ended in the except clause
    summary,                \* None, or <<found, not found>> as reported
    sp_playlists,           \* number of sp.user_playlist_create calls
    sp_playlist_items,      \* the uris passed to sp.playlist_add_items
    fn_call,                \* a direct call of one function: its name and
                            \* its arguments
    fn_done,                \* the call has returned
    fn_result               \* what it returned

vars ==
    << impl, catalog, dry_run, audio_files, pc, file_idx, found_tracks_uris,
       not_found_tracks_info, song_info, stage, queries_to_try, q_idx,
       stage1_queries, stage2_queries, best_match_candidate,
       highest_score_achieved, api_requests_count, track, sp_calls,
       query_failed, summary, sp_playlists, sp_playlist_items,
       fn_call, fn_done, fn_result >>

fnVars == << fn_call, fn_done, fn_result >>

runVars ==
    << impl, catalog, dry_run, audio_files, pc, file_idx, found_tracks_uris,
       not_found_tracks_info, song_info, stage, queries_to_try, q_idx,
       stage1_queries, stage2_queries, best_match_candidate,
       highest_score_achieved, api_requests_count, track, sp_calls,
       query_failed, summary, sp_playlists, sp_playlist_items >>

inputVars == << impl, catalog, dry_run, audio_files >>

loopVars == << file_idx, found_tracks_uris, not_found_tracks_info >>

outVars == << summary, sp_playlists, sp_playlist_items >>

\* the files after the first of a folder are drawn from LaterFiles
LaterFiles == {NoTitle}

Folders ==
    {f \in UNION {[1..n -> Records] : n \in 0..MaxFiles} :
        \A n \in 2..Len(f) : f[n] \in LaterFiles}

\* the Greek records are looked up in the Greeklish catalogue, the others in
\* the Latin one
CatalogOf(f) ==
    IF f # <<>> /\ f[1] \in GreekRecords THEN GreeklishTracks ELSE LatinTracks

\* the state of create_playlist_from_folder before its first statement
RunStart ==
    /\ pc = "start"
    /\ file_idx = 0
    /\ found_tracks_uris = <<>>
    /\ not_found_tracks_info = <<>>
    /\ song_info = NoSong
    /\ stage = 0
    /\ queries_to_try = <<>>
    /\ q_idx = 1
    /\ stage1_queries = <<>>
    /\ stage2_queries = <<>>
    /\ best_match_candidate = None
    /\ highest_score_achieved = Zero
    /\ api_requests_count = 0
    /\ track = None
    /\ sp_calls = <<>>
    /\ query_failed = FALSE
    /\ summary = None
    /\ sp_playlists = 0
    /\ sp_playlist_items = <<>>

\* no function is called directly while a folder is processed
NoCall == [op |-> "none"]

Init ==
    /\ impl \in Impls
    /\ dry_run \in BOOLEAN
    /\ audio_files \in Folders
    /\ catalog = CatalogOf(audio_files)
    /\ RunStart
    /\ fn_call = NoCall
    /\ fn_done = FALSE
    /\ fn_result = None

(***************************************************************************)
(* Scoring the items of one response.  Both return                         *)
(* <<best_match_candidate, highest_score_achieved>>.                       *)
(***************************************************************************)
\* the creators: the score is stored first, then the held dictionary is
\* built from the item; an item without artists raises IndexError there, and
\* the except clause of the query drops the rest of the response.  The
\* third component tells whether that happened.
RECURSIVE CreatorItems(_, _, _, _, _)
CreatorScored(i, info, items, best, score, current_score) ==
    IF RGt(current_score, score)
    THEN IF Tracks[Head(items)].artists = <<>>
         THEN <<best, current_score, TRUE>>
         ELSE CreatorItems(i, info, Tail(items), <<Head(items)>>, current_score)
    ELSE CreatorItems(i, info, Tail(items), best, score)

CreatorItems(i, info, items, best, score) ==
    IF items = <<>> THEN <<best, score, FALSE>>
    ELSE CreatorScored(i, info, items, best, score,
                       _calculate_match_score(i, info, Tracks[Head(items)]))

\* TrackFinder: the item itself becomes the held candidate
RECURSIVE FinderItems(_, _, _, _)
FinderScored(info, items, best, score, current_score) ==
    IF RGt(current_score, score)
    THEN FinderItems(info, Tail(items), <<Head(items)>>, current_score)
    ELSE FinderItems(info, Tail(items), best, score)

FinderItems(info, items, best, score) ==
    IF items = <<>> THEN <<best, score, FALSE>>
    ELSE FinderScored(info, items, best, score,
                      _calculate_match_score("finder", info,
                                             Tracks[Head(items)]))

\* the stage loop keeps what the scoring of a response returned
Hold(scored, failed) ==
    /\ best_match_candidate' = scored[1]
    /\ highest_score_achieved' = scored[2]
    /\ query_failed' = (failed \/ scored[3])

(***************************************************************************)
(* Actions.                                                                *)
(***************************************************************************)
\* create_playlist_from_folder up to the per-file loop
ScanFolder ==
    /\ pc = "start"
    /\ pc' = IF audio_files = <<>> THEN "finished" ELSE "loop"
    /\ UNCHANGED << fnVars, inputVars, loopVars, outVars, song_info, stage,
                    queries_to_try, q_idx, stage1_queries, stage2_queries,
                    best_match_candidate, highest_score_achieved,
                    api_requests_count, track, sp_calls,
                    query_failed >>

\* a variant of the title test that forgets to strip the title
NoTitleReturnUnstripped(i, info) == i # "finder" /\ info.title = <<>>

\* the creators return at once when the stripped title is empty; TrackFinder
\* has no such test
NoTitleReturn(i, info) == i # "finder" /\ strip(info.title) = <<>>

\* the loop takes the next file and calls search_spotify_track, which runs
\* up to its first stage list (the creators return at once without a title)
BeginResolution ==
    /\ pc = "loop"
    /\ file_idx < Len(audio_files)
    /\ LET info == audio_files[file_idx + 1]
           noTitle == NoTitleReturn(impl, info)
           s1 == PlanOf(impl, info)[1]
       IN  /\ file_idx' = file_idx + 1
           /\ song_info' = info
           /\ api_requests_count' = 0
           /\ best_match_candidate' = None
           /\ highest_score_achieved' = Zero
           /\ sp_calls' = <<>>
           /\ query_failed' = FALSE
           /\ track' = None
           /\ stage2_queries' = <<>>
           /\ q_idx' = 1
           /\ pc' = IF noTitle THEN "returned" ELSE "stage"
           /\ stage' = IF noTitle THEN 0 ELSE 1
           /\ stage1_queries' = IF noTitle THEN <<>> ELSE s1
           /\ queries_to_try' = IF noTitle THEN <<>> ELSE s1
    /\ UNCHANGED << fnVars, inputVars, found_tracks_uris, not_found_tracks_info, outVars >>

\* a falsy entry of the stage list is passed over
SkipQuery ==
    /\ pc = "stage"
    /\ q_idx <= Len(queries_to_try)
    /\ ~Truthy(queries_to_try[q_idx])
    /\ q_idx' = q_idx + 1
    /\ UNCHANGED << fnVars, inputVars, loopVars, outVars, pc, song_info, stage,
                    queries_to_try, stage1_queries, stage2_queries,
                    best_match_candidate, highest_score_achieved,
                    api_requests_count, track, sp_calls,
                    query_failed >>

\* one iteration of _execute_queries / _process_search_queries_for_stage of
\* the creators: the search and the scoring sit in one try block
CreatorSearch ==
    /\ pc = "stage"
    /\ impl # "finder"
    /\ q_idx <= Len(queries_to_try)
    /\ Truthy(queries_to_try[q_idx])
    /\ \E resp \in Responses(catalog) :
          /\ sp_calls' = Append(sp_calls, queries_to_try[q_idx])
          /\ api_requests_count' =
                 IF resp.kind = "raise" THEN api_requests_count
                 ELSE api_requests_count + 1
          /\ Hold(CreatorItems(impl, song_info, resp.items,
                               best_match_candidate, highest_score_achieved),
                  resp.kind \in {"raise", "malformed"})
    /\ q_idx' = q_idx + 1
    /\ UNCHANGED << fnVars, inputVars, loopVars, outVars, pc, song_info, stage,
                    queries_to_try, stage1_queries, stage2_queries, track >>

\* one iteration of TrackFinder._process_search_queries_for_stage: nothing
\* is caught, so a failing search ends the whole run
FinderSearch ==
    /\ pc = "stage"
    /\ impl = "finder"
    /\ q_idx <= Len(queries_to_try)
    /\ Truthy(queries_to_try[q_idx])
    /\ \E resp \in Responses(catalog) :
          /\ sp_calls' = Append(sp_calls, queries_to_try[q_idx])
          /\ api_requests_count' = api_requests_count + 1
          /\ Hold(FinderItems(song_info, resp.items,
                              best_match_candidate, highest_score_achieved),
                  FALSE)
          /\ pc' = IF resp.kind = "items" THEN "stage" ELSE "raised"
    /\ q_idx' = q_idx + 1
    /\ UNCHANGED << fnVars, inputVars, loopVars, outVars, song_info, stage,
                    queries_to_try, stage1_queries, stage2_queries, track >>

\* a variant of the acceptance test in which the creators compare with >
\* where the code has >=
AcceptedStrictly(n) ==
    IF impl = "finder"
    THEN RGt(highest_score_achieved,
             IF n = 1 THEN FINDER_STAGE1_SCORE
             ELSE IF n = 2 THEN FINDER_STAGE2_SCORE ELSE FINDER_FINAL_SCORE)
    ELSE /\ best_match_candidate # None
         /\ RGt(highest_score_achieved,
                IF n = 1 THEN STAGE1_MIN_SCORE
                ELSE IF n = 2 THEN STAGE2_MIN_SCORE ELSE MIN_ACCEPTABLE_SCORE)

\* the acceptance test after the list of stage n
Accepted(n) ==
    IF impl = "finder"
    THEN RGt(highest_score_achieved,
             IF n = 1 THEN FINDER_STAGE1_SCORE
             ELSE IF n = 2 THEN FINDER_STAGE2_SCORE ELSE FINDER_FINAL_SCORE)
    ELSE /\ best_match_candidate # None
         /\ RGe(highest_score_achieved,
                IF n = 1 THEN STAGE1_MIN_SCORE
                ELSE IF n = 2 THEN STAGE2_MIN_SCORE ELSE MIN_ACCEPTABLE_SCORE)

StageDone(n) == pc = "stage" /\ stage = n /\ q_idx > Len(queries_to_try)

\* after Stage 1: return the held candidate, or plan Stage 2
Stage1Decision ==
    /\ StageDone(1)
    /\ IF Accepted(1)
       THEN /\ track' = best_match_candidate
            /\ pc' = "returned"
            /\ UNCHANGED << stage, queries_to_try, q_idx, stage2_queries >>
       ELSE /\ stage' = 2
            /\ stage2_queries' = PlanOf(impl, song_info)[2]
            /\ queries_to_try' = stage2_queries'
            /\ q_idx' = 1
            /\ UNCHANGED << track, pc >>
    /\ UNCHANGED << fnVars, inputVars, loopVars, outVars, song_info, stage1_queries,
                    best_match_candidate, highest_score_achieved,
                    api_requests_count, sp_calls,
                    query_failed >>

\* after Stage 2: return the held candidate, or plan Stage 3
Stage2Decision ==
    /\ StageDone(2)
    /\ IF Accepted(2)
       THEN /\ track' = best_match_candidate
            /\ pc' = "returned"
            /\ UNCHANGED << stage, queries_to_try, q_idx >>
       ELSE /\ stage' = 3
            /\ queries_to_try' = PlanOf(impl, song_info)[3]
            /\ q_idx' = 1
            /\ UNCHANGED << track, pc >>
    /\ UNCHANGED << fnVars, inputVars, loopVars, outVars, song_info, stage1_queries,
                    stage2_queries, best_match_candidate,
                    highest_score_achieved, api_requests_count, sp_calls,
                    query_failed >>

\* after Stage 3: the final decision
FinalDecision ==
    /\ StageDone(3)
    /\ track' = IF Accepted(3) THEN best_match_candidate ELSE None
    /\ pc' = "returned"
    /\ UNCHANGED << fnVars, inputVars, loopVars, outVars, song_info, stage,
                    queries_to_try, q_idx, stage1_queries, stage2_queries,
                    best_match_candidate, highest_score_achieved,
                    api_requests_count, sp_calls,
                    query_failed >>

\* what the loop of the script keeps of a file it did not find, where the
\* record belongs
NotFoundTitleOnly(i, info) == info.title

\* what the loop keeps of a file it did not find: the script keeps the
\* title, _process_audio_files the record get_song_info returned
NotFoundEntry(i, info) == IF i = "mono" THEN info.title ELSE info

\* the loop body after search_spotify_track returned
RecordOutcome ==
    /\ pc = "returned"
    /\ IF track # None
       THEN /\ found_tracks_uris' =
                   Append(found_tracks_uris, Tracks[track[1]].uri)
            /\ UNCHANGED not_found_tracks_info
       ELSE /\ not_found_tracks_info' =
                   Append(not_found_tracks_info,
                          NotFoundEntry(impl, song_info))
            /\ UNCHANGED found_tracks_uris
    /\ pc' = "loop"
    /\ UNCHANGED << fnVars, inputVars, file_idx, outVars, song_info, stage,
                    queries_to_try, q_idx, stage1_queries, stage2_queries,
                    best_match_candidate, highest_score_achieved,
                    api_requests_count, track, sp_calls,
                    query_failed >>

\* a playlist for whatever was found, dry run or not
CreatesPlaylistIfFound(dry, found) == found # <<>>

\* the test that guards create_playlist and add_tracks_to_playlist
CreatesPlaylist(dry, found) == ~dry /\ found # <<>>

\* after the loop: the summary and the playlist.  The monolithic script
\* returns before reporting when nothing was found.
FinishRun ==
    /\ pc = "loop"
    /\ file_idx = Len(audio_files)
    /\ LET nothing == found_tracks_uris = <<>>
           writes == CreatesPlaylist(dry_run, found_tracks_uris)
       IN  /\ summary' = IF impl = "mono" /\ nothing THEN None
                         ELSE << Len(found_tracks_uris),
                                 Len(not_found_tracks_info) >>
           /\ sp_playlists' = IF writes THEN sp_playlists + 1 ELSE sp_playlists
           /\ sp_playlist_items' =
                  IF writes THEN found_tracks_uris ELSE sp_playlist_items
    /\ pc' = "finished"
    /\ UNCHANGED << fnVars, inputVars, loopVars, song_info, stage, queries_to_try,
                    q_idx, stage1_queries, stage2_queries,
                    best_match_candidate, highest_score_achieved,
                    api_requests_count, track, sp_calls,
                    query_failed >>

Next ==
    \/ ScanFolder
    \/ BeginResolution
    \/ SkipQuery
    \/ CreatorSearch
    \/ FinderSearch
    \/ Stage1Decision
    \/ Stage2Decision
    \/ FinalDecision
    \/ RecordOutcome
    \/ FinishRun

Spec == Init /\ [][Next]_vars

(***************************************************************************)
(* src/metadata_utils.py.  A tag of the loaded file is a record            *)
(* [kind, items]: kind "list" holds the list items, kind "str" a bare      *)
(* string as items[1], kind "absent" is a name the container lacks, and    *)
(* the kinds "KeyError" and "ValueError" are lookups the container         *)
(* answers by raising.  The names "nam", "ART" and "alb" stand for the     *)
(* MP4 names, which open with the copyright sign.                          *)
(***************************************************************************)
TitleTags == << "title", "TIT2", "nam" >>

ArtistTags == << "artist", "TPE1", "ART" >>

AlbumTags == << "album", "TALB", "alb" >>

\* the tags' names by field, in the order of the dictionary
tag_definitions ==
    << <<"title", TitleTags>>, <<"artist", ArtistTags>>,
       <<"album", AlbumTags>> >>

\* Path(file_path).parts joined again: repeated separators collapse
RECURSIVE PathStr(_)
PathStr(p) ==
    IF Len(p) < 2 THEN p
    ELSE IF p[1] = "/" /\ p[2] = "/" THEN PathStr(Tail(p))
    ELSE <<p[1]>> \o PathStr(Tail(p))

\* Path.name: what follows the last separator
PathName(p) ==
    LET seps == {i \in 1..Len(p) : p[i] = "/"}
    IN  IF seps = {} THEN p ELSE SubSeq(p, Max(seps) + 1, Len(p))

\* Path.stem: the name without its suffix, which starts at the last dot
\* unless that dot opens or closes the name
Stem(p) ==
    LET name == PathName(PathStr(p))
        dots == {i \in 1..Len(name) : name[i] = "."}
    IN  IF dots # {} /\ Max(dots) > 1 /\ Max(dots) < Len(name)
        THEN SubSeq(name, 1, Max(dots) - 1)
        ELSE name

\* None for an empty list, else the first item, or the bare string
\* a variant that takes the last item of a list
NormalizeLastItem(raw_value) ==
    IF raw_value.kind = "list" /\ raw_value.items = <<>> THEN None
    ELSE << raw_value.items[Len(raw_value.items)] >>

_normalize_tag_value(raw_value) ==
    IF raw_value.kind = "list" /\ raw_value.items = <<>> THEN None
    ELSE << raw_value.items[1] >>

\* _get_tag_value from the n-th name on: <<raised, value>>, where raised
\* tells that an exception left the function and value is None or <<text>>
RECURSIVE GetTagFrom(_, _, _)
GetTagFrom(audio_tags, tag_names_list, n) ==
    IF n > Len(tag_names_list) THEN <<FALSE, None>>
    ELSE LET raw_value == audio_tags[tag_names_list[n]]
         IN  IF raw_value.kind = "ValueError" THEN <<TRUE, None>>
             ELSE IF raw_value.kind \in {"absent", "KeyError"}
             THEN GetTagFrom(audio_tags, tag_names_list, n + 1)
             ELSE IF _normalize_tag_value(raw_value) = None
             THEN GetTagFrom(audio_tags, tag_names_list, n + 1)
             ELSE IF strip(_normalize_tag_value(raw_value)[1]) # <<>>
             THEN <<FALSE, << strip(_normalize_tag_value(raw_value)[1]) >> >>
             ELSE GetTagFrom(audio_tags, tag_names_list, n + 1)

_get_tag_value(audio_tags, tag_names_list) ==
    GetTagFrom(audio_tags, tag_names_list, 1)

\* <<raised, extracted_data>>: the fields that have a value, as a function
\* from their names
_extract_fields_from_tags(audio_tags) ==
    LET got == [n \in 1..3 |-> _get_tag_value(audio_tags, tag_definitions[n][2])]
        fields == {n \in 1..3 : got[n][2] # None}
    IN  << \E n \in 1..3 : got[n][1],
           [f \in {tag_definitions[n][1] : n \in fields} |->
               got[CHOOSE n \in fields : tag_definitions[n][1] = f][2][1]] >>

\* the default of a field no tag fills
DefaultEmpty(p, field) == <<>>

DefaultField(p, field) == IF field = "title" THEN Stem(p) ELSE <<>>

\* audio is what MutagenFile answered: kind "raise", "none" (no audio
\* object), "notags" (audio.tags is None) or "tags" with the container
get_song_info(file_path, audio) ==
    LET extracted ==
            IF audio.kind = "tags" THEN _extract_fields_from_tags(audio.tags)
            ELSE << audio.kind = "raise", <<>> >>
        updated(field) ==
            IF ~extracted[1] /\ field \in DOMAIN extracted[2]
            THEN extracted[2][field]
            ELSE DefaultField(file_path, field)
    IN  [title |-> updated("title"), artist |-> updated("artist"),
         album |-> updated("album"), file_path |-> PathStr(file_path)]

(***************************************************************************)
(* The functions called directly, outside a run over a folder: the         *)
(* arguments of one call are drawn at the start, and the call returns.     *)
(***************************************************************************)
\* local records as a caller may pass them; duration_ms 0 stands for a
\* record without the key, which local_song_info.get('duration_ms', 0)
\* reads as 0
LocalTitles ==
    { <<>>, <<"S", "o", "n", "g">>, <<"S", "o", "n", "x">>,
      <<"S", "o", "n", "g", " ", "(", "L", "y", "r", "i", "c", "s", ")">> }

LocalArtists ==
    { <<>>, <<"A", "b", "c", "d">>, <<"A", "b", "c", "e">>,
      <<"A", "b", "c", "d", " ", "&", " ", "X", "y">>,
      <<"A", "b", "c", "d", " ", "X", "y">> }

LocalDurations == {0, 195000, 200000, 203000, 205000}

ScoreLocals ==
    {[title |-> t, artist |-> a, duration_ms |-> d] :
        t \in LocalTitles, a \in LocalArtists, d \in LocalDurations}

ScoreCalls ==
    {[op |-> "_calculate_match_score", impl |-> i, local_song_info |-> l,
      spotify_track_info |-> t] :
        i \in Impls, l \in ScoreLocals,
        t \in LatinTracks \cup DirectOnlyTracks}

\* the file paths of the direct calls of get_song_info
FilePaths ==
    { <<"d", "/", "s", ".", "m", "p", "3">>,
      <<"d", "/", "/", "a", ".", "b", ".", "m", "4", "a">>,
      <<".", "o", "g", "g">> }

\* what a container may hold under one name; the text is padded, so that
\* stripping shows, and differs from name to name
TagKinds == {"absent", "list", "str", "KeyError", "ValueError"}

TagText(tag) == << " ", tag, " " >>

TagStates(tag) ==
    {[kind |-> k, items |-> <<>>] : k \in TagKinds \ {"str"}}
        \cup {[kind |-> "list", items |-> << <<" ", " ">> >>],
              [kind |-> "list", items |-> << TagText(tag), <<"x">> >>],
              [kind |-> "str", items |-> << TagText(tag) >>],
              [kind |-> "str", items |-> << <<>> >>]}

Absent == [kind |-> "absent", items |-> <<>>]

\* the containers: the three title names and the first artist and album
\* names vary, the other names are absent
TagContainers ==
    {[tag \in {"title", "TIT2", "nam", "artist", "TPE1", "ART",
               "album", "TALB", "alb"} |->
        CASE tag = "title" -> t1
          [] tag = "TIT2" -> t2
          [] tag = "nam" -> t3
          [] tag = "artist" -> a1
          [] tag = "album" -> b1
          [] OTHER -> Absent] :
        t1 \in TagStates("title"), t2 \in TagStates("TIT2"),
        t3 \in {Absent, [kind |-> "ValueError", items |-> <<>>],
                [kind |-> "list", items |-> << TagText("nam") >>]},
        a1 \in TagStates("artist"),
        b1 \in {Absent, [kind |-> "list", items |-> <<>>],
                [kind |-> "list", items |-> << TagText("album") >>]}}

\* what MutagenFile(file_path_str, easy=True) answers
Audios ==
    {[kind |-> k, tags |-> <<>>] : k \in {"raise", "none", "notags"}}
        \cup {[kind |-> "tags", tags |-> c] : c \in TagContainers}

\* the name lists _get_tag_value is called with: two of tag_definitions, and
\* the first two title names the other way round
TagNameLists == { TitleTags, ArtistTags, <<"TIT2", "title">> }

TagValueCalls ==
    {[op |-> "_get_tag_value", audio_tags |-> c, tag_names_list |-> l] :
        c \in TagContainers, l \in TagNameLists}

ExtractCalls ==
    {[op |-> "_extract_fields_from_tags", audio_tags |-> c] :
        c \in TagContainers}

SongInfoCalls ==
    {[op |-> "get_song_info", file_path |-> p, audio |-> a] :
        p \in FilePaths, a \in Audios}

\* the titles of the direct calls of clean_title: up to MaxTokens pieces
\* of parentheses, a bracketed tag, the halves of "lyric" and a space
TitleTokens ==
    << <<"(">>, <<")">>, <<"[", "x", "]">>, <<"l", "y">>, <<"r", "i", "c">>,
       <<" ">> >>

RECURSIVE Concat(_)
Concat(pieces) ==
    IF pieces = <<>> THEN <<>> ELSE Head(pieces) \o Concat(Tail(pieces))

TokenTitles ==
    {Concat([n \in 1..Len(ix) |-> TitleTokens[ix[n]]]) :
        ix \in UNION {[1..n -> 1..Len(TitleTokens)] : n \in 0..MaxTokens}}

CleanTitleCalls == {[op |-> "clean_title", title |-> t] : t \in TokenTitles}

\* the texts of the direct calls of greek_to_greeklish: Greek letters of
\* the table, letters only the script's table has, and ASCII
GreekChars == {"θ", "Θ", "ς", "ϋ", "Ϋ", "h", "A", " "}

GreekTexts == UNION {[1..n -> GreekChars] : n \in 0..MaxChars}

GreeklishCalls ==
    {[op |-> "greek_to_greeklish", impl |-> i, text |-> t] :
        i \in {"mono", "client"}, t \in GreekTexts}

\* the direct calls of _process_search_queries_for_stage with one query,
\* answered by a list of items: the accumulators passed in are the initial
\* ones, or a candidate of an earlier stage with the score it earned
StageCalls ==
    {[op |-> "_process_search_queries_for_stage", impl |-> i,
      song_info |-> info, items |-> items, best_match_candidate |-> h] :
        i \in Impls, info \in {SongOnly, SongAbcd},
        items \in ItemLists(LatinTracks),
        h \in {None} \cup {<<n>> : n \in LatinTracks}}

\* the score that comes with the candidate passed in
ScoreBefore(i, info, held) ==
    IF held = None THEN Zero
    ELSE _calculate_match_score(i, info, Tracks[held[1]])

\* the records whose three stage lists are built directly: Latin and
\* Greek titles, a title that is noise only, an empty title, and Latin,
\* Greek, blank and empty artists
PlanTitles ==
    { <<>>, <<"S", "o", "n", "g">>, <<"Μ", "ι", "α">>,
      <<"(", "O", "f", "f", "i", "c", "i", "a", "l", " ", "A", "u", "d", "i",
        "o", ")">>,
      <<"Μ", "ι", "α", " ", "[", "H", "D", "]">> }

PlanArtists == { <<>>, <<" ">>, <<"A", "b", "c", "d">>, <<"Γ", "η">> }

PlanCalls ==
    {[op |-> "_get_stage3_queries", impl |-> i,
      song_info |-> [title |-> t, artist |-> a, duration_ms |-> 0]] :
        i \in Impls, t \in PlanTitles, a \in PlanArtists}

\* the arguments _build_search_query is called with: a string, the empty
\* string or None
QueryFields ==
    { None, <<>>, <<" ">>, <<"S", "o", "n", "g">>, <<"A", "b", "c", "d">>,
      <<"Μ", "ι", "α">>, <<"a", " ", "b">> }

BuildCalls ==
    {[op |-> "_build_search_query", title_to_search |-> t,
      artist_to_search |-> a] : t \in QueryFields, a \in QueryFields}

FnCalls ==
    ScoreCalls \cup SongInfoCalls \cup CleanTitleCalls \cup GreeklishCalls
        \cup StageCalls \cup PlanCalls \cup BuildCalls
        \cup TagValueCalls \cup ExtractCalls

FnInit ==
    /\ impl = "mono"
    /\ dry_run = TRUE
    /\ audio_files = <<>>
    /\ catalog = {}
    /\ RunStart
    /\ fn_call \in FnCalls
    /\ fn_done = FALSE
    /\ fn_result = None

Returns(value) ==
    /\ fn_done' = TRUE
    /\ fn_result' = value
    /\ UNCHANGED << fn_call, runVars >>

CallScore ==
    /\ ~fn_done
    /\ fn_call.op = "_calculate_match_score"
    /\ Returns(_calculate_match_score(fn_call.impl, fn_call.local_song_info,
                                       Tracks[fn_call.spotify_track_info]))

CallGetSongInfo ==
    /\ ~fn_done
    /\ fn_call.op = "get_song_info"
    /\ Returns(get_song_info(fn_call.file_path, fn_call.audio))

CallCleanTitle ==
    /\ ~fn_done
    /\ fn_call.op = "clean_title"
    /\ Returns(clean_title(fn_call.title))

CallGreeklish ==
    /\ ~fn_done
    /\ fn_call.op = "greek_to_greeklish"
    /\ Returns(greek_to_greeklish(fn_call.impl, fn_call.text))

\* the scoring loop over the items of the one response
ProcessStage(i, info, items, held, score) ==
    IF i = "finder" THEN FinderItems(info, items, held, score)
    ELSE CreatorItems(i, info, items, held, score)

CallProcessStage ==
    /\ ~fn_done
    /\ fn_call.op = "_process_search_queries_for_stage"
    /\ Returns(ProcessStage(fn_call.impl, fn_call.song_info, fn_call.items,
                            fn_call.best_match_candidate,
                            ScoreBefore(fn_call.impl, fn_call.song_info,
                                        fn_call.best_match_candidate)))

\* the Stage 1, Stage 2 and Stage 3 lists search_spotify_track builds for a
\* record, the third from the first two
CallStageQueries ==
    /\ ~fn_done
    /\ fn_call.op = "_get_stage3_queries"
    /\ Returns(PlanOf(fn_call.impl, fn_call.song_info))

CallBuildQuery ==
    /\ ~fn_done
    /\ fn_call.op = "_build_search_query"
    /\ Returns(_build_search_query(fn_call.title_to_search,
                                   fn_call.artist_to_search))

CallGetTagValue ==
    /\ ~fn_done
    /\ fn_call.op = "_get_tag_value"
    /\ Returns(_get_tag_value(fn_call.audio_tags, fn_call.tag_names_list))

CallExtractFields ==
    /\ ~fn_done
    /\ fn_call.op = "_extract_fields_from_tags"
    /\ Returns(_extract_fields_from_tags(fn_call.audio_tags))

FnNext ==
    \/ CallScore
    \/ CallGetSongInfo
    \/ CallCleanTitle
    \/ CallGreeklish
    \/ CallProcessStage
    \/ CallStageQueries
    \/ CallBuildQuery
    \/ CallGetTagValue
    \/ CallExtractFields

FnSpec == FnInit /\ [][FnNext]_vars

(***************************************************************************)
(* Properties.                                                             *)
(***************************************************************************)
Creator == impl # "finder"

\* the queries a stage list makes the loop issue: its truthy entries
Issued(qs) == FilterNone(qs)

NoRepeats(xs) == \A a, b \in 1..Len(xs) : xs[a] = xs[b] => a = b

\* a candidate is held and the stored score is at least n/100
HeldAtLeast(n) ==
    best_match_candidate # None /\ RGe(highest_score_achieved, <<n, 100>>)

\* C1: in both copies of SpotifyPlaylistCreator a record whose title is empty
\* or only whitespace is resolved as not found without any search:
\* search_spotify_track never enters a stage, returns None, sp.search is not
\* called and api_requests_count stays 0, whatever the artist
C1_NoTitleNoSearch ==
    (Creator /\ file_idx > 0 /\ strip(song_info.title) = <<>>)
        => /\ pc # "stage"
           /\ track = None
           /\ sp_calls = <<>>
           /\ api_requests_count = 0

\* C1 happens: a creator has returned for the whitespace title
C1_Witness ==
    Creator /\ pc = "returned" /\ song_info = BlankTitle /\ track = None

\* C2: TrackFinder resolves a record with an empty title as not found and
\* issues no search in any stage
C2_FinderNoTitleNoSearch ==
    (impl = "finder" /\ file_idx > 0 /\ song_info.title = <<>>)
        => /\ sp_calls = <<>>
           /\ api_requests_count = 0
           /\ track = None

C4_FinderReturnsAtNinety ==
    [][(impl = "finder" /\ StageDone(1) /\ best_match_candidate # None
            /\ highest_score_achieved = <<9, 10>>)
         => /\ pc' = "returned"
            /\ track' = best_match_candidate
            /\ sp_calls' = Issued(stage1_queries)]_vars

C6_FinalThreshold ==
    [][StageDone(3)
         => /\ pc' = "returned"
            /\ track' = IF RGe(highest_score_achieved, <<65, 100>>)
                        THEN best_match_candidate ELSE None]_vars

\* C7: in the creators a search that raises, or whose response is malformed,
\* leaves the held candidate and the stored score exactly as they were, the
\* loop goes on to the next query, and nothing is raised
C7_FailureCountsAsNothing ==
    /\ [](Creator => pc # "raised")
    /\ [][(Creator /\ pc = "stage" /\ q_idx' = q_idx + 1 /\ query_failed')
            => /\ pc' = "stage"
               /\ UNCHANGED << best_match_candidate,
                               highest_score_achieved >>]_vars

\* C8: PlaylistCreator with TrackFinder never lets a failing search out of
\* the per-file loop: a run on a folder with files ends with every file
\* processed and the summary reported
C8_RunAlwaysSummarised ==
    (impl = "finder" /\ audio_files # <<>> /\ pc \in {"raised", "finished"})
        => /\ pc = "finished"
           /\ file_idx = Len(audio_files)
           /\ summary # None

\* C9: within one resolution no query string is passed to sp.search twice,
\* in any implementation and for any title and artist
C9_NoQueryTwice == NoRepeats(sp_calls)

\* C10: the Greek record, looked up in a catalogue of Greeklish titles whose
\* track the searches have returned, is resolved, and only at the decision
\* after Stage 3
C10_GreekResolvedAtStage3 ==
    (song_info = MiaAgapi /\ catalog = GreeklishTracks /\ pc = "returned"
            /\ best_match_candidate # None)
        => /\ track # None
           /\ stage = 3

\* the files _process_audio_files has finished with
FilesProcessed ==
    IF pc \in {"stage", "returned", "raised"} THEN file_idx - 1 ELSE file_idx

C15_DryRunWritesNothing ==
    dry_run => sp_playlists = 0 /\ sp_playlist_items = <<>>

\* a dry run that searched, found a track and finished
C15_Witness ==
    /\ dry_run
    /\ pc = "finished"
    /\ found_tracks_uris # <<>>
    /\ sp_calls # <<>>

\* the score the resolution's record gives the track n
OwnScore(n) == _calculate_match_score(impl, song_info, Tracks[n])

\* C19: in every search_spotify_track the held candidate and the stored
\* score belong together at every point: a score above 0 means a candidate
\* is held, the held candidate is the one that produced the stored score,
\* and so the candidate returned has the highest score computed, also when
\* a candidate has an empty artists list.
C19_CandidateMatchesScore ==
    pc \in {"stage", "returned"} =>
        /\ RGt(highest_score_achieved, Zero) => best_match_candidate # None
        /\ best_match_candidate # None
              => OwnScore(best_match_candidate[1]) = highest_score_achieved
        /\ (pc = "returned" /\ track # None)
              => OwnScore(track[1]) = highest_score_achieved

\* C21: in every search_spotify_track, api_requests_count starts at 0 for
\* each resolution and always equals the number of sp.search calls issued
\* so far in it: each call adds exactly 1, whether it returned or raised.
C21_CountEqualsCalls ==
    pc \in {"stage", "returned", "raised"}
        => api_requests_count = Len(sp_calls)

\* the queries of the first n stage lists of the resolution, in plan order
PlannedUpTo(n) ==
    LET plan == PlanOf(impl, song_info)
    IN  (IF n >= 1 THEN Issued(plan[1]) ELSE <<>>)
            \o (IF n >= 2 THEN Issued(plan[2]) ELSE <<>>)
            \o (IF n >= 3 THEN Issued(plan[3]) ELSE <<>>)

IsPrefix(xs, ys) == Len(xs) <= Len(ys) /\ xs = SubSeq(ys, 1, Len(xs))

\* the threshold the implementation tests after the list of stage n
ThresholdAfter(n) ==
    IF impl = "finder"
    THEN (IF n = 1 THEN <<95, 100>> ELSE <<90, 100>>)
    ELSE (IF n = 1 THEN <<85, 100>> ELSE <<75, 100>>)

\* C23: within one resolution the queries are issued one after another in
\* plan order, Stage 1 first, then Stage 2, then Stage 3; the threshold is
\* tested only after the last query of a stage; a later stage is entered
\* only if the score so far is below the threshold of the stage before; and
\* every query of an entered stage is issued.
C23_StagesInOrder ==
    /\ [](pc \in {"stage", "returned"} /\ stage >= 1
            => IsPrefix(sp_calls, PlannedUpTo(stage)))
    /\ [](pc = "returned" /\ stage >= 1 => sp_calls = PlannedUpTo(stage))
    /\ [][pc = "stage" /\ (stage' # stage \/ pc' = "returned")
            => /\ q_idx > Len(queries_to_try)
               /\ stage' # stage
                    => /\ stage' = stage + 1
                       /\ RLt(highest_score_achieved,
                              ThresholdAfter(stage))]_vars

\* the largest number of searches one resolution may have issued by the end
\* of stage n
MaxCallsUpTo(n) ==
    IF n <= 0 THEN 0
    ELSE IF n = 1 THEN 1
    ELSE IF n = 2 THEN 3
    ELSE IF impl = "finder" THEN 5 ELSE 10

\* C24: a resolution issues a bounded number of remote searches whatever the
\* record and the answers: 1 in Stage 1, at most 2 in Stage 2, and in Stage 3
\* at most 2 in TrackFinder (5 in all) and at most 7 in the playlist creators
\* (10 in all).
C24_CallsBounded == Len(sp_calls) <= MaxCallsUpTo(stage)

\* a creator has issued ten searches and returned
C24_Witness ==
    /\ Creator
    /\ pc = "returned"
    /\ stage = 3
    /\ Len(sp_calls) = 10

\* a query with nothing to search for: None, the empty string, or a quoted
\* empty phrase
BlankQuery(q) == q = None \/ q = <<>> \/ q = Quoted(<<>>)

\* C25: no search is issued with a query whose title part and artist part
\* are both blank: sp.search is never called with None, with the empty
\* string or with a quoted empty phrase, whatever the record.
C25_NoBlankQuery ==
    \A n \in 1..Len(sp_calls) : ~BlankQuery(sp_calls[n])

(***************************************************************************)
(* Properties of the functions called directly.                            *)
(***************************************************************************)
Scored == fn_done /\ fn_call.op = "_calculate_match_score"

\* C11: _calculate_match_score returns a value between 0 and 1 for every
\* local record and every candidate, in every implementation, also when
\* title and artist match fully and the duration bonus applies.
C11_ScoreInUnitInterval ==
    Scored => RGe(fn_result, Zero) /\ RGe(One, fn_result)

\* the title contribution the claims state: 0.6 times the ratio of the
\* lower-cased cleaned local title and the lower-cased candidate name
StatedTitleTerm ==
    RMul(<<3, 5>>,
         ratio(lower(clean_title(fn_call.local_song_info.title)),
               lower(Tracks[fn_call.spotify_track_info].name)))

BothArtistsEmpty ==
    /\ fn_call.local_song_info.artist = <<>>
    /\ Tracks[fn_call.spotify_track_info].artists = <<>>

\* C12: in every implementation, when the local artist is empty and the
\* candidate's artist list is empty, the artist term contributes exactly
\* 0.4: the score is 0.6 * title similarity + 0.4, before any duration
\* bonus.
C12_BothEmptyArtistTerm ==
    Scored /\ BothArtistsEmpty =>
        \E bonus \in {Zero, <<1, 10>>} :
            fn_result = RAdd(RAdd(StatedTitleTerm, <<2, 5>>), bonus)

TitlesIdentical ==
    lower(clean_title(fn_call.local_song_info.title))
        = lower(Tracks[fn_call.spotify_track_info].name)

\* the title contribution as _calculate_match_score computes it
TitleContribution ==
    TitleTerm(fn_call.local_song_info, Tracks[fn_call.spotify_track_info])

\* C13: the score is never negative, because its components are only added:
\* it is at least the title contribution, which is 0.6 times the ratio of
\* the lower-cased cleaned local title and the lower-cased candidate name,
\* lies between 0 and 0.6, and is exactly 0.6 when the two strings are
\* identical.
C13_ScoreNeverNegative ==
    Scored =>
        /\ RGe(fn_result, Zero)
        /\ RGe(fn_result, TitleContribution)
        /\ TitleContribution = StatedTitleTerm
        /\ RGe(TitleContribution, Zero)
        /\ RGe(<<3, 5>>, TitleContribution)
        /\ (TitlesIdentical => TitleContribution = <<3, 5>>)

\* a title that cleaning makes identical to the candidate's name, scored
\* with nothing but the title contribution
C13_Witness ==
    /\ Scored
    /\ TitlesIdentical
    /\ fn_call.local_song_info.title # Tracks[fn_call.spotify_track_info].name
    /\ fn_result = <<3, 5>>

GotSongInfo == fn_done /\ fn_call.op = "get_song_info"

\* a tag is usable when its name is present and its value, the first item
\* of a list, is more than whitespace
UsableTag(raw) ==
    /\ raw.kind \in {"list", "str"}
    /\ raw.items # <<>>
    /\ strip(raw.items[1]) # <<>>

\* the value of the first usable tag among the names, else the default
StatedField(names, default) ==
    LET tags == fn_call.audio.tags
        usable == {n \in 1..Len(names) : UsableTag(tags[names[n]])}
    IN  IF fn_call.audio.kind = "tags" /\ usable # {}
        THEN strip(tags[names[Min(usable)]].items[1])
        ELSE default

StatedFields ==
    /\ fn_result.title
           = StatedField(<<"title", "TIT2", "nam">>, Stem(fn_call.file_path))
    /\ fn_result.artist = StatedField(<<"artist", "TPE1", "ART">>, <<>>)
    /\ fn_result.album = StatedField(<<"album", "TALB", "alb">>, <<>>)

AllDefaults ==
    /\ fn_result.title = Stem(fn_call.file_path)
    /\ fn_result.artist = <<>>
    /\ fn_result.album = <<>>

\* the container raises something other than a missing key for some name
ContainerMayRaise ==
    /\ fn_call.audio.kind = "tags"
    /\ \E tag \in DOMAIN fn_call.audio.tags :
          fn_call.audio.tags[tag].kind = "ValueError"

\* C16: get_song_info always returns a record with exactly the keys title,
\* artist, album and file_path.  The title is the value of the first usable
\* title tag, else the filename stem; artist and album are the value of the
\* first usable tag, else the empty string.  A tag is unusable when it is
\* absent, an empty list or whitespace only.  When the tag reader raises,
\* the three fields take their defaults.
C16_SongInfoAlwaysReturned ==
    GotSongInfo =>
        /\ DOMAIN fn_result = {"title", "artist", "album", "file_path"}
        /\ fn_call.audio.kind = "raise" => AllDefaults
        /\ ~ContainerMayRaise => StatedFields
        /\ ContainerMayRaise => StatedFields \/ AllDefaults

\* the first title tag holds whitespace only and the second one a value,
\* the artist tag is an empty list, the album tag holds a value
C16_Witness ==
    /\ GotSongInfo
    /\ fn_call.audio.kind = "tags"
    /\ fn_call.audio.tags["title"].items = << <<" ", " ">> >>
    /\ fn_call.audio.tags["artist"] = [kind |-> "list", items |-> <<>>]
    /\ fn_result.title = <<"TIT2">>
    /\ fn_result.artist = <<>>
    /\ fn_result.album = <<"album">>

\* C17: clean_title is idempotent: cleaning a cleaned title changes
\* nothing, for every input string.
C17_CleanTitleIdempotent ==
    fn_done /\ fn_call.op = "clean_title" =>
        clean_title(fn_result) = fn_result

Transliterated == fn_done /\ fn_call.op = "greek_to_greeklish"

\* the ASCII characters of the texts
AsciiChars == WordChars \cup {" "}

\* C18: greek_to_greeklish maps each character on its own through the
\* fixed table and passes a character the table lacks through unchanged:
\* the result of a text is the results of its parts joined.  A pure-ASCII
\* text is returned unchanged, the empty text gives the empty text, and the
\* function is idempotent on its own output.
C18_GreeklishCharByChar ==
    Transliterated =>
        LET text == fn_call.text
            g(t) == greek_to_greeklish(fn_call.impl, t)
        IN  /\ \A k \in 0..Len(text) :
                  fn_result = g(SubSeq(text, 1, k))
                                  \o g(SubSeq(text, k + 1, Len(text)))
            /\ \A k \in 1..Len(text) :
                  text[k] \notin DOMAIN greek_to_greeklish_map
                              \cup DOMAIN mono_overrides
                      => g(<<text[k]>>) = <<text[k]>>
            /\ (\A k \in 1..Len(text) : text[k] \in AsciiChars)
                  => fn_result = text
            /\ text = <<>> => fn_result = <<>>
            /\ g(fn_result) = fn_result

\* a text of a two-letter Greek capital, a letter that only the table of
\* the script has, and an ASCII letter
C18_Witness ==
    /\ Transliterated
    /\ fn_call.impl = "client"
    /\ fn_call.text = <<"Θ", "ϋ", "h">>
    /\ fn_result = <<"T", "h", "ϋ", "h">>

StageProcessed ==
    fn_done /\ fn_call.op = "_process_search_queries_for_stage"

\* the scores of the items of the response, in result order
ItemScores ==
    [n \in 1..Len(fn_call.items) |->
        _calculate_match_score(fn_call.impl, fn_call.song_info,
                               Tracks[fn_call.items[n]])]

\* the score passed in with the candidate
ScorePassed ==
    ScoreBefore(fn_call.impl, fn_call.song_info, fn_call.best_match_candidate)

\* the items that beat the score passed in and every other item
BestItems ==
    {n \in 1..Len(fn_call.items) :
        /\ RGt(ItemScores[n], ScorePassed)
        /\ \A m \in 1..Len(fn_call.items) :
              RGe(ItemScores[n], ItemScores[m])}

\* C20: within one resolution every candidate is scored and the accumulator
\* is replaced only by a candidate with a strictly greater score: the held
\* score never decreases, and among candidates tied for the maximum the
\* first encountered is the one kept.
C20_FirstBestKept ==
    StageProcessed =>
        /\ RGe(fn_result[2], ScorePassed)
        /\ IF BestItems = {}
           THEN /\ fn_result[1] = fn_call.best_match_candidate
                /\ fn_result[2] = ScorePassed
           ELSE /\ fn_result[1] = << fn_call.items[Min(BestItems)] >>
                /\ fn_result[2] = ItemScores[Min(BestItems)]

Planned == fn_done /\ fn_call.op = "_get_stage3_queries"

\* C22: the Stage 3 list holds no query of the Stage 1 or the Stage 2 list
\* and holds no query twice, for every title and artist.
C22_Stage3Unique ==
    Planned =>
        /\ \A n \in 1..Len(fn_result[3]) :
              ~InList(fn_result[3][n], fn_result[1] \o fn_result[2])
        /\ NoRepeats(fn_result[3])

Built == fn_done /\ fn_call.op = "_build_search_query"

\* an argument that is neither None nor the empty string
Given(s) == s # None /\ s # <<>>

\* the string the statement gives for a title and an artist
StatedQuery(t, a) ==
    IF Given(t) /\ Given(a)
    THEN <<"t", "r", "a", "c", "k", ":", "\"">> \o t
            \o <<"\"", " ", "a", "r", "t", "i", "s", "t", ":", "\"">> \o a
            \o <<"\"">>
    ELSE IF Given(t) THEN <<"\"">> \o t \o <<"\"">>
    ELSE IF Given(a) THEN <<"\"">> \o a \o <<"\"">>
    ELSE None

\* C26: _build_search_query(title, artist) returns 'track:"<title>"
\* artist:"<artist>"' when both are non-empty, the one quoted phrase
\* '"<title>"' or '"<artist>"' when exactly one is non-empty, and None when
\* both are empty or absent.
C26_QueryFormat ==
    Built => fn_result = StatedQuery(fn_call.title_to_search,
                                     fn_call.artist_to_search)

\* a call with a title only has returned its quoted phrase
C26_Witness ==
    /\ Built
    /\ Given(fn_call.title_to_search)
    /\ ~Given(fn_call.artist_to_search)
    /\ fn_result = <<"\"">> \o fn_call.title_to_search \o <<"\"">>

\* C27: for every resolution that passes the title check, each of the three
\* stage lists holds at least one query once its None and empty entries are
\* dropped, whatever the title and the artist.
C27_StagesNonEmpty ==
    Planned /\ Truthy(SearchTitle(fn_call.impl, fn_call.song_info))
        => \A k \in 1..3 : Issued(fn_result[k]) # <<>>

\* the candidate of a direct call of _calculate_match_score
Candidate == Tracks[fn_call.spotify_track_info]

\* the lower-cased local artist parts of the call
LocalParts == split_artist_parts(lower(fn_call.local_song_info.artist))

\* the parts that are a substring of at least one single candidate artist
MatchedParts ==
    {n \in 1..Len(LocalParts) :
        \E k \in 1..Len(Candidate.artists) :
            IsSubstring(LocalParts[n], lower(Candidate.artists[k]))}

\* C28: in the playlist creators' _calculate_match_score, when the local
\* artist and the candidate's artist list are both non-empty, the artist term
\* is 0.4 * (local artist parts that are a substring of at least one single
\* candidate artist name) / (local artist parts), and the monolithic script
\* and src/spotify_client.py give the same value.
C28_ArtistTermByParts ==
    Scored /\ fn_call.impl # "finder"
           /\ fn_call.local_song_info.artist # <<>>
           /\ Candidate.artists # <<>>
           /\ LocalParts # <<>>
        => /\ fn_result
                = RAdd(TitleTerm(fn_call.local_song_info, Candidate),
                       RMul(Rat(Cardinality(MatchedParts), Len(LocalParts)),
                            <<2, 5>>))
           /\ _calculate_match_score("mono", fn_call.local_song_info, Candidate)
                = _calculate_match_score("client", fn_call.local_song_info,
                                         Candidate)

\* the title term plus the artist term of a direct call of TrackFinder's
\* _calculate_match_score
TitleAndArtist ==
    RAdd(TitleTerm(fn_call.local_song_info, Candidate),
         ArtistTermRatio(fn_call.local_song_info, Candidate))

\* both durations are known and less than 5000 ms apart
DurationsClose ==
    LET l == fn_call.local_song_info.duration_ms
        c == Candidate.duration_ms
    IN  /\ l # 0
        /\ c # 0
        /\ l - c < 5000
        /\ c - l < 5000

\* C29: TrackFinder._calculate_match_score adds a flat 0.1 if and only if
\* both durations are known and differ by less than 5000 ms, a difference of
\* exactly 5000 ms earning nothing; when a duration is missing the score is
\* the title term plus the artist term.
C29_DurationBonus ==
    Scored /\ fn_call.impl = "finder"
        => fn_result = IF DurationsClose
                       THEN RAdd(TitleAndArtist, <<1, 10>>)
                       ELSE TitleAndArtist

\* a call with durations exactly 5000 ms apart has returned without the bonus
C29_Witness ==
    /\ Scored
    /\ fn_call.impl = "finder"
    /\ fn_call.local_song_info.duration_ms = Candidate.duration_ms + 5000
    /\ Candidate.duration_ms # 0
    /\ fn_result = TitleAndArtist

GotTagValue == fn_done /\ fn_call.op = "_get_tag_value"

ExtractedFields == fn_done /\ fn_call.op = "_extract_fields_from_tags"

\* the positions of the names whose tag is usable
UsableNames(names) ==
    {n \in 1..Len(names) : UsableTag(fn_call.audio_tags[names[n]])}

\* the stripped value of the first usable name
FirstUsable(names) ==
    strip(fn_call.audio_tags[names[Min(UsableNames(names))]].items[1])

\* the fields of tag_definitions one of whose names is usable
FieldsWithValue ==
    {tag_definitions[n][1] : n \in {k \in 1..3 :
                                      UsableNames(tag_definitions[k][2]) # {}}}

NamesOf(field) ==
    tag_definitions[CHOOSE n \in 1..3 : tag_definitions[n][1] = field][2]

\* C30: _get_tag_value scans the names in the order given and returns the
\* stripped value, the first item of a list, of the first name that is
\* present with a value that is more than whitespace; names that are missing,
\* hold an empty list or only whitespace are skipped, and None is returned
\* when no name has a value; _extract_fields_from_tags includes a field only
\* when it has such a value.  Stated for the calls that return.
C30_FirstUsableTag ==
    /\ GotTagValue /\ ~fn_result[1]
        => fn_result[2]
             = IF UsableNames(fn_call.tag_names_list) = {} THEN None
               ELSE << FirstUsable(fn_call.tag_names_list) >>
    /\ ExtractedFields /\ ~fn_result[1]
        => /\ DOMAIN fn_result[2] = FieldsWithValue
           /\ \A f \in FieldsWithValue :
                 fn_result[2][f] = FirstUsable(NamesOf(f))

\* a call has passed over a first name that holds only whitespace and
\* returned the stripped first item of the second name's list
C30_Witness ==
    /\ GotTagValue
    /\ fn_call.tag_names_list = TitleTags
    /\ fn_call.audio_tags["title"] = [kind |-> "list", items |-> << <<" ", " ">> >>]
    /\ fn_call.audio_tags["TIT2"].kind = "list"
    /\ Len(fn_call.audio_tags["TIT2"].items) = 2
    /\ fn_result = <<FALSE, << strip(TagText("TIT2")) >> >>
    /\ strip(TagText("TIT2")) # TagText("TIT2")

====
